---- MODULE Spec2Model ----
(***************************************************************************)
(* Britium Express Delivery web front end.                                 *)
(*                                                                         *)
(* Part 1: the useAuthProfile hook, in its two variants:                   *)
(*   "snapshot"  src/unnamed/part_000 (28-86) and part_001 (85-141):       *)
(*               onAuthStateChanged + onSnapshot on users/{uid};           *)
(*   "getDoc"    src/unnamed/part_001 (28-56):                             *)
(*               onAuthStateChanged + one awaited getDoc per notification. *)
(* Every handler (auth callback, onData, onError, continuation of the      *)
(* awaited read, effect cleanup) is one atomic action: JavaScript runs a   *)
(* callback to completion and React publishes the batched setState calls.  *)
(***************************************************************************)
EXTENDS Integers, FiniteSets, Sequences, Bags, TLC

(***************************************************************************)
(* Bounds of the model.                                                    *)
(***************************************************************************)
\* number of auth-state notifications the auth stream delivers
MaxAuth == 3
\* the per-listener snapshot counter saturates here ("this many or more")
MaxCount == 2

(***************************************************************************)
(* Values.  JavaScript null is the record Null; an object is a record that *)
(* has exactly the fields that are not undefined.                          *)
(***************************************************************************)
Null == [isNull |-> TRUE]

\* firebase User objects: U1 has displayName and email, U2 has neither
U1 == [uid |-> "u1", displayName |-> "Ann", email |-> "ann@britium.mm"]
U2 == [uid |-> "u2"]
Users == {U1, U2}

\* contents the document users/{uid} can have (UserProfile objects)
ProfileDocs(uid) ==
  IF uid = "u1"
  THEN { [role |-> "manager", stationId |-> "st1", stationName |-> "Hub",
          email |-> "ann@britium.mm"],
         [displayName |-> "Ann K", email |-> "ann@britium.mm"] }
  ELSE { [role |-> "rider_driver", displayName |-> "Bo",
          email |-> "bo@britium.mm"] }

\* a DocumentSnapshot: snap.exists() and snap.data()
NoDoc == [exists |-> FALSE, data |-> Null]
Snapshots(uid) == {NoDoc} \cup {[exists |-> TRUE, data |-> d] : d \in ProfileDocs(uid)}

Variants == {"snapshot", "getDoc"}

VARIABLES
  variant,           \* which of the two hook implementations is mounted
  user,              \* React state: user
  profile,           \* React state: profile
  loading,           \* React state: loading
  profileListeners,  \* onSnapshot listeners opened so far (snapshot variant)
  pendingReads,      \* getDoc calls still awaited (getDoc variant)
  authCount,         \* number of auth notifications delivered so far
  tornDown,          \* the effect cleanup has run (unsubAuth() was called)
  uncaught,          \* an error escaped a hook callback
  lastEvent,         \* history: the handler that ran last
  watched,           \* SendParcel: quoteForm.watch(), the quote form's values
  submitState,       \* SendParcel: React state submitState
  pendingAdd,        \* SendParcel: bag of the addDoc calls still awaited
  quotationRequests, \* Firestore collection quotation_requests
  edits,             \* number of form edits made so far
  shipments,         \* Firestore collection shipments: document id -> data
  trackInput,        \* SendParcel: trackForm field trackingId (characters)
  trackState,        \* SendParcel: React state trackState
  lookups,           \* SendParcel: calls of tryFindShipment still awaited
  lastFound,         \* history: the last call of tryFindShipment that returned
  trackSubmits,      \* number of calls of onSubmitTrack so far
  outcomes,          \* history: the trackState each call of onSubmitTrack ended with
  dom,               \* SendParcel: the disabled attributes React committed last
  formData,          \* Signup: React state formData (its role)
  files,             \* Signup: React state files, docName -> File or null
  signupLoading,     \* Signup: React state loading
  signupError,       \* Signup: React state error (parts of the message)
  registrations,     \* Signup: calls of handleRegister awaiting firebase
  authUsers,         \* firebase auth: accounts created by Signup
  storageObjects,    \* firebase storage: documents uploaded by Signup
  userDocs,          \* Firestore collection users: profiles written by Signup
  location,          \* the route the router shows
  authorization,     \* api.defaults.headers.common.Authorization
  requests,          \* api.post calls of src/api/auth.ts still awaited
  apiCalls,          \* number of calls of login/register/refreshToken/logout
  lastCall,          \* history: the call of src/api/auth.ts that ended last
  sinceLogout        \* history: a logout has resolved and no login, register
                     \* or refreshToken call was started after it

pub == <<user, profile, loading>>
hookVars == <<variant, user, profile, loading, profileListeners, pendingReads,
              authCount, tornDown, uncaught, lastEvent>>
quoteVars == <<watched, submitState, pendingAdd, quotationRequests, edits>>
\* the state of the pages, which the hook does not touch
trackVars == <<shipments, trackInput, trackState, lookups, lastFound, trackSubmits,
               outcomes>>
signupVars == <<formData, files, signupLoading, signupError, registrations,
                authUsers, storageObjects, userDocs, location>>
apiVars == <<authorization, requests, apiCalls, lastCall, sinceLogout>>
pageVars == <<quoteVars, trackVars, signupVars, dom, apiVars>>
\* what the quote tab, the track tab and the signup page leave alone
notQuoteVars == <<hookVars, trackVars, signupVars, dom, apiVars>>
notTrackVars == <<hookVars, quoteVars, signupVars, dom, apiVars>>
notSignupVars == <<hookVars, quoteVars, trackVars, dom, apiVars>>
notApiVars == <<hookVars, quoteVars, trackVars, signupVars, dom>>
vars == <<hookVars, pageVars>>

Min(a, b) == IF a < b THEN a ELSE b

Event(kind, id, u, snap) == [kind |-> kind, id |-> id, u |-> u, snap |-> snap]

\* carried by an "error" event: the profile that was cached when onError ran
Replaced(p) == [exists |-> FALSE, data |-> p]

(***************************************************************************)
(* { role: "customer", displayName: u.displayName ?? undefined,            *)
(*   email: u.email ?? undefined }                                         *)
(***************************************************************************)
DefaultProfile(u) ==
  [f \in {"role"} \cup ({"displayName", "email"} \cap DOMAIN u) |->
     IF f = "role" THEN "customer" ELSE u[f]]

(***************************************************************************)
(* SendParcel after its first render: the defaultValues of quoteForm       *)
(* (weightKg is the decimal n/d; the text fields of the form are reduced   *)
(* to contact = "blank"/"filled": all of them empty or all of them         *)
(* acceptable to QuoteSchema), submitState idle, nothing written.          *)
(***************************************************************************)
defaultValues ==
  [serviceType |-> "Standard", destinationRegion |-> "Yangon",
   weightKg |-> [n |-> 1, d |-> 1],
   lengthCm |-> 20, widthCm |-> 15, heightCm |-> 10,
   contact |-> "blank"]

QuoteAtRest ==
  /\ watched = defaultValues
  /\ submitState = [type |-> "idle"]
  /\ pendingAdd = EmptyBag
  /\ quotationRequests = {}
  /\ edits = 0

\* characters of a tracking id, a string being a sequence of characters
Whitespace == {" "}

SHP1 == <<"S", "H", "P", "1">>
SHP2 == <<"S", "H", "P", "2">>
TRK1 == <<"T", "R", "K", "1">>

\* number of calls of onSubmitTrack
MaxTrackSubmits == 2

\* the disabled attributes of the Submit and the Track button that React
\* commits for the current submitState and trackState
Rendered ==
  [submitDisabled |-> submitState.type = "submitting",
   trackDisabled |-> trackState.type = "loading"]

\* the track tab after the first render, with no shipment stored; both
\* buttons of the page are enabled
TrackAtRest ==
  /\ shipments = [id \in {SHP1, SHP2} |-> NoDoc]
  /\ trackInput = <<>>
  /\ trackState = [type |-> "idle"]
  /\ lookups = {}
  /\ lastFound = Null
  /\ trackSubmits = 0
  /\ outcomes = [n \in 1..MaxTrackSubmits |-> Null]
  /\ dom = [submitDisabled |-> FALSE, trackDisabled |-> FALSE]

\* Signup after its first render: role customer, no file chosen
SignupAtRest ==
  /\ formData = [role |-> "customer"]
  /\ files = <<>>
  /\ signupLoading = FALSE
  /\ signupError = Null
  /\ registrations = {}
  /\ authUsers = {}
  /\ storageObjects = {}
  /\ userDocs = {}
  /\ location = "/signup"

\* the api client as axios.create made it (only Content-Type is set), no
\* call of src/api/auth.ts made yet
ApiAtRest ==
  /\ authorization = Null
  /\ requests = {}
  /\ apiCalls = 0
  /\ lastCall = [kind |-> "none"]
  /\ sinceLogout = FALSE

PagesAtRest == QuoteAtRest /\ TrackAtRest /\ SignupAtRest /\ ApiAtRest

(***************************************************************************)
(* State after the first render: useState(null), useState(null),           *)
(* useState(true), and the effect has registered the auth observer.        *)
(***************************************************************************)
Init ==
  /\ variant \in Variants
  /\ user = Null
  /\ profile = Null
  /\ loading = TRUE
  /\ profileListeners = {}
  /\ pendingReads = {}
  /\ authCount = 0
  /\ tornDown = FALSE
  /\ uncaught = FALSE
  /\ lastEvent = Event("mount", 0, Null, NoDoc)
  /\ PagesAtRest

(***************************************************************************)
(* The auth stream notifies the observer on sign-in, sign-out and user     *)
(* switch: the first notification carries the current user (or null), a    *)
(* later one a user different from the one notified last.  The observer is *)
(* registered until unsubAuth() is called.                                 *)
(***************************************************************************)
AuthCanDeliver(u) ==
  /\ ~tornDown
  /\ authCount < MaxAuth
  /\ authCount = 0 \/ u # user

(***************************************************************************)
(* Snapshot variant, the onAuthStateChanged callback.  The function it     *)
(* returns (() => unsubProfile()) is a return value of an observer         *)
(* callback; nothing calls it, so no listener is ever unsubscribed.        *)
(***************************************************************************)
AuthStateChanged(u) ==
  /\ variant = "snapshot"
  /\ AuthCanDeliver(u)
  /\ user' = u
  /\ authCount' = authCount + 1
  /\ IF u = Null
     THEN /\ profile' = Null
          /\ loading' = FALSE
          /\ UNCHANGED profileListeners
     ELSE /\ loading' = TRUE
          /\ UNCHANGED profile
          /\ profileListeners' = profileListeners \cup
               {[id |-> authCount + 1, u |-> u, st |-> "open", delivered |-> 0]}
  /\ lastEvent' = Event("auth", authCount + 1, u, NoDoc)
  /\ UNCHANGED <<variant, pendingReads, tornDown, uncaught>>
  /\ UNCHANGED pageVars

(***************************************************************************)
(* Faulty variants of onData, used to show that the properties depend on   *)
(* it: one publishes null for a missing document, one fills a missing role *)
(* into the document data, one forgets setLoading(false).                  *)
(***************************************************************************)
SnapshotDeliveredNullOnMissing(l, snap) ==
  /\ variant = "snapshot"
  /\ l \in profileListeners
  /\ l.st = "open"
  /\ snap \in Snapshots(l.u.uid)
  /\ profile' = IF snap.exists THEN snap.data ELSE Null
  /\ loading' = FALSE
  /\ profileListeners' = (profileListeners \ {l}) \cup
       {[l EXCEPT !.delivered = Min(l.delivered + 1, MaxCount)]}
  /\ lastEvent' = Event("snapshot", l.id, l.u, snap)
  /\ UNCHANGED <<variant, user, pendingReads, authCount, tornDown, uncaught>>
  /\ UNCHANGED pageVars

SnapshotDeliveredFillsRole(l, snap) ==
  /\ variant = "snapshot"
  /\ l \in profileListeners
  /\ l.st = "open"
  /\ snap \in Snapshots(l.u.uid)
  /\ profile' = IF snap.exists
                THEN [f \in DOMAIN snap.data \cup {"role"} |->
                        IF f \in DOMAIN snap.data THEN snap.data[f] ELSE "customer"]
                ELSE DefaultProfile(l.u)
  /\ loading' = FALSE
  /\ profileListeners' = (profileListeners \ {l}) \cup
       {[l EXCEPT !.delivered = Min(l.delivered + 1, MaxCount)]}
  /\ lastEvent' = Event("snapshot", l.id, l.u, snap)
  /\ UNCHANGED <<variant, user, pendingReads, authCount, tornDown, uncaught>>
  /\ UNCHANGED pageVars

SnapshotDeliveredKeepsLoading(l, snap) ==
  /\ variant = "snapshot"
  /\ l \in profileListeners
  /\ l.st = "open"
  /\ snap \in Snapshots(l.u.uid)
  /\ profile' = IF snap.exists THEN snap.data ELSE DefaultProfile(l.u)
  /\ profileListeners' = (profileListeners \ {l}) \cup
       {[l EXCEPT !.delivered = Min(l.delivered + 1, MaxCount)]}
  /\ lastEvent' = Event("snapshot", l.id, l.u, snap)
  /\ UNCHANGED <<variant, user, loading, pendingReads, authCount, tornDown, uncaught>>
  /\ UNCHANGED pageVars

(***************************************************************************)
(* Snapshot variant, onData of the listener l (u is the user the callback  *)
(* closed over).                                                           *)
(***************************************************************************)
SnapshotDelivered(l, snap) ==
  /\ variant = "snapshot"
  /\ l \in profileListeners
  /\ l.st = "open"
  /\ snap \in Snapshots(l.u.uid)
  /\ profile' = IF snap.exists THEN snap.data ELSE DefaultProfile(l.u)
  /\ loading' = FALSE
  /\ profileListeners' = (profileListeners \ {l}) \cup
       {[l EXCEPT !.delivered = Min(l.delivered + 1, MaxCount)]}
  /\ lastEvent' = Event("snapshot", l.id, l.u, snap)
  /\ UNCHANGED <<variant, user, pendingReads, authCount, tornDown, uncaught>>
  /\ UNCHANGED pageVars

(***************************************************************************)
(* Faulty variant of onError: keeps whatever profile is cached.            *)
(***************************************************************************)
ListenerErrorKeepsProfile(l) ==
  /\ variant = "snapshot"
  /\ l \in profileListeners
  /\ l.st = "open"
  /\ loading' = FALSE
  /\ profileListeners' = (profileListeners \ {l}) \cup {[l EXCEPT !.st = "errored"]}
  /\ lastEvent' = Event("error", l.id, l.u, Replaced(profile))
  /\ UNCHANGED <<variant, user, profile, pendingReads, authCount, tornDown, uncaught>>
  /\ UNCHANGED pageVars

(***************************************************************************)
(* Faulty variant of onError: substitutes the default only when nothing is *)
(* cached yet and otherwise retains the cached profile.                    *)
(***************************************************************************)
ListenerErrorRetainsCached(l) ==
  /\ variant = "snapshot"
  /\ l \in profileListeners
  /\ l.st = "open"
  /\ profile' = IF profile = Null THEN DefaultProfile(l.u) ELSE profile
  /\ loading' = FALSE
  /\ profileListeners' = (profileListeners \ {l}) \cup {[l EXCEPT !.st = "errored"]}
  /\ lastEvent' = Event("error", l.id, l.u, Replaced(profile))
  /\ UNCHANGED <<variant, user, pendingReads, authCount, tornDown, uncaught>>
  /\ UNCHANGED pageVars

(***************************************************************************)
(* Snapshot variant, onError of the listener l.  Firestore ends a listener *)
(* after it reported an error.                                             *)
(***************************************************************************)
ListenerError(l) ==
  /\ variant = "snapshot"
  /\ l \in profileListeners
  /\ l.st = "open"
  /\ profile' = DefaultProfile(l.u)
  /\ loading' = FALSE
  /\ profileListeners' = (profileListeners \ {l}) \cup {[l EXCEPT !.st = "errored"]}
  /\ lastEvent' = Event("error", l.id, l.u, Replaced(profile))
  /\ UNCHANGED <<variant, user, pendingReads, authCount, tornDown, uncaught>>
  /\ UNCHANGED pageVars

(***************************************************************************)
(* getDoc variant, the async onAuthStateChanged callback up to its await.  *)
(***************************************************************************)
AuthStateChangedGetDoc(u) ==
  /\ variant = "getDoc"
  /\ AuthCanDeliver(u)
  /\ user' = u
  /\ profile' = Null
  /\ authCount' = authCount + 1
  /\ IF u = Null
     THEN /\ loading' = FALSE
          /\ UNCHANGED pendingReads
     ELSE /\ loading' = TRUE
          /\ pendingReads' = pendingReads \cup {[id |-> authCount + 1, u |-> u]}
  /\ lastEvent' = Event("auth", authCount + 1, u, NoDoc)
  /\ UNCHANGED <<variant, profileListeners, tornDown, uncaught>>
  /\ UNCHANGED pageVars

(***************************************************************************)
(* Faulty variant of the resolved read: substitutes the customer default   *)
(* for a missing document, as the snapshot variant does.                   *)
(***************************************************************************)
GetDocResolvedDefaults(r, snap) ==
  /\ variant = "getDoc"
  /\ r \in pendingReads
  /\ snap \in Snapshots(r.u.uid)
  /\ profile' = IF snap.exists THEN snap.data ELSE DefaultProfile(r.u)
  /\ loading' = FALSE
  /\ pendingReads' = pendingReads \ {r}
  /\ lastEvent' = Event("resolved", r.id, r.u, snap)
  /\ UNCHANGED <<variant, user, profileListeners, authCount, tornDown, uncaught>>
  /\ UNCHANGED pageVars

(***************************************************************************)
(* getDoc variant, the continuation after the await when the read          *)
(* succeeded: setProfile(snap.data() ?? null), then the finally block.     *)
(***************************************************************************)
GetDocResolved(r, snap) ==
  /\ variant = "getDoc"
  /\ r \in pendingReads
  /\ snap \in Snapshots(r.u.uid)
  /\ profile' = IF snap.exists THEN snap.data ELSE Null
  /\ loading' = FALSE
  /\ pendingReads' = pendingReads \ {r}
  /\ lastEvent' = Event("resolved", r.id, r.u, snap)
  /\ UNCHANGED <<variant, user, profileListeners, authCount, tornDown, uncaught>>
  /\ UNCHANGED pageVars

(***************************************************************************)
(* Faulty variant of the rejected read: setLoading(false) after the await  *)
(* instead of in a finally block, so a rejection skips it.                 *)
(***************************************************************************)
GetDocRejectedNoFinally(r) ==
  /\ variant = "getDoc"
  /\ r \in pendingReads
  /\ uncaught' = TRUE
  /\ pendingReads' = pendingReads \ {r}
  /\ lastEvent' = Event("rejected", r.id, r.u, NoDoc)
  /\ UNCHANGED <<variant, user, profile, loading, profileListeners, authCount, tornDown>>
  /\ UNCHANGED pageVars

(***************************************************************************)
(* getDoc variant, the awaited read rejected: only the finally block runs  *)
(* and the rejection leaves the async callback (there is no catch).        *)
(***************************************************************************)
GetDocRejected(r) ==
  /\ variant = "getDoc"
  /\ r \in pendingReads
  /\ loading' = FALSE
  /\ uncaught' = TRUE
  /\ pendingReads' = pendingReads \ {r}
  /\ lastEvent' = Event("rejected", r.id, r.u, NoDoc)
  /\ UNCHANGED <<variant, user, profile, profileListeners, authCount, tornDown>>
  /\ UNCHANGED pageVars

(***************************************************************************)
(* The effect cleanup of either variant: () => unsubAuth() / () => unsub().*)
(* It detaches the auth observer and nothing else.  The setters that the   *)
(* remaining callbacks call afterwards are modelled as taking effect: the  *)
(* cleanup also runs while the component stays mounted (effect re-run).    *)
(***************************************************************************)
Teardown ==
  /\ ~tornDown
  /\ tornDown' = TRUE
  /\ lastEvent' = Event("teardown", authCount, user, NoDoc)
  /\ UNCHANGED <<variant, user, profile, loading, profileListeners,
                 pendingReads, authCount, uncaught>>
  /\ UNCHANGED pageVars

Next ==
  \/ \E u \in Users \cup {Null} : AuthStateChanged(u)
  \/ \E l \in profileListeners : \E snap \in Snapshots(l.u.uid) : SnapshotDelivered(l, snap)
  \/ \E l \in profileListeners : ListenerError(l)
  \/ \E u \in Users \cup {Null} : AuthStateChangedGetDoc(u)
  \/ \E r \in pendingReads : \E snap \in Snapshots(r.u.uid) : GetDocResolved(r, snap)
  \/ \E r \in pendingReads : GetDocRejected(r)
  \/ Teardown

Spec == Init /\ [][Next]_vars

TypeOK ==
  /\ variant \in Variants
  /\ loading \in BOOLEAN
  /\ tornDown \in BOOLEAN
  /\ uncaught \in BOOLEAN
  /\ authCount \in 0..MaxAuth
  /\ user \in Users \cup {Null}

(***************************************************************************)
(* Part 2: JavaScript number arithmetic.                                   *)
(*                                                                         *)
(* The pricing code of SendParcel (src/unnamed/part_002, 101-125 and       *)
(* 208-224) computes with IEEE 754 binary64 numbers: every *, /, + yields  *)
(* the exact result rounded to 53 significant bits, ties to even.  Whether *)
(* a price lands on one side of a rounding boundary depends on that        *)
(* rounding, so it is modelled bit for bit.  Exponent overflow and         *)
(* subnormals cannot occur for the magnitudes involved and are left out.   *)
(*                                                                         *)
(* A natural number of any size is a sequence of limbs, least significant  *)
(* first, without leading zero limbs; zero is the empty sequence.          *)
(***************************************************************************)
LimbBits == 12
Base == 4096
MantissaBits == 53

RECURSIVE BigFromInt(_)
BigFromInt(n) == IF n = 0 THEN <<>> ELSE <<n % Base>> \o BigFromInt(n \div Base)

RECURSIVE BigToInt(_)
BigToInt(a) == IF a = <<>> THEN 0 ELSE a[1] + Base * BigToInt(Tail(a))

RECURSIVE AddCarry(_, _, _)
AddCarry(a, b, c) ==
  IF a = <<>> /\ b = <<>>
  THEN (IF c = 0 THEN <<>> ELSE <<c>>)
  ELSE LET x == (IF a = <<>> THEN 0 ELSE a[1]) + (IF b = <<>> THEN 0 ELSE b[1]) + c
       IN  <<x % Base>> \o AddCarry(IF a = <<>> THEN <<>> ELSE Tail(a),
                                    IF b = <<>> THEN <<>> ELSE Tail(b),
                                    x \div Base)

BigAdd(a, b) == AddCarry(a, b, 0)

\* a * k + c for a small k
RECURSIVE MulSmall(_, _, _)
MulSmall(a, k, c) ==
  IF a = <<>>
  THEN BigFromInt(c)
  ELSE LET x == a[1] * k + c
       IN  <<x % Base>> \o MulSmall(Tail(a), k, x \div Base)

ShiftLimb(a) == IF a = <<>> THEN <<>> ELSE <<0>> \o a

RECURSIVE BigMul(_, _)
BigMul(a, b) ==
  IF a = <<>> \/ b = <<>>
  THEN <<>>
  ELSE BigAdd(IF a[1] = 0 THEN <<>> ELSE MulSmall(b, a[1], 0),
              ShiftLimb(BigMul(Tail(a), b)))

PrependLimb(d, q) == IF d = 0 /\ q = <<>> THEN <<>> ELSE <<d>> \o q

DivStep(hi, limb, k) ==
  [q |-> PrependLimb((hi.r * Base + limb) \div k, hi.q),
   r |-> (hi.r * Base + limb) % k]

\* quotient and remainder of a by a small k
RECURSIVE DivSmall(_, _)
DivSmall(a, k) ==
  IF a = <<>>
  THEN [q |-> <<>>, r |-> 0]
  ELSE DivStep(DivSmall(Tail(a), k), a[1], k)

RECURSIVE BitLenInt(_)
BitLenInt(n) == IF n = 0 THEN 0 ELSE 1 + BitLenInt(n \div 2)

BitLen(a) == IF a = <<>> THEN 0 ELSE LimbBits * (Len(a) - 1) + BitLenInt(a[Len(a)])

ZeroLimbs(n) == [i \in 1..n |-> 0]

ShiftLeft(a, s) ==
  IF a = <<>> THEN <<>>
  ELSE ZeroLimbs(s \div LimbBits) \o MulSmall(a, 2 ^ (s % LimbBits), 0)

ShiftRight(a, s) ==
  IF s \div LimbBits >= Len(a) THEN <<>>
  ELSE DivSmall(SubSeq(a, (s \div LimbBits) + 1, Len(a)), 2 ^ (s % LimbBits)).q

\* a mod 2^s # 0
LowBitsSet(a, s) ==
  \/ \E i \in 1..Min(Len(a), s \div LimbBits) : a[i] # 0
  \/ /\ s \div LimbBits < Len(a)
     /\ a[(s \div LimbBits) + 1] % (2 ^ (s % LimbBits)) # 0

\* bit number s (from 0) of a
BitAt(a, s) ==
  /\ s \div LimbBits < Len(a)
  /\ (a[(s \div LimbBits) + 1] \div (2 ^ (s % LimbBits))) % 2 = 1

IsOdd(a) == a # <<>> /\ a[1] % 2 = 1

BigLess(a, b) ==
  \/ Len(a) < Len(b)
  \/ /\ Len(a) = Len(b)
     /\ \E i \in 1..Len(a) :
          /\ a[i] < b[i]
          /\ \A j \in (i + 1)..Len(a) : a[j] = b[j]

BigLeq(a, b) == a = b \/ BigLess(a, b)

(***************************************************************************)
(* A number is [neg, m, e] with value (-1)^neg * m * 2^e, m odd or zero,   *)
(* so that equal numbers are equal records.                                *)
(***************************************************************************)
Zero == [neg |-> FALSE, m |-> <<>>, e |-> 0]

RECURSIVE TrailingZeros(_)
TrailingZeros(n) == IF n % 2 = 1 THEN 0 ELSE 1 + TrailingZeros(n \div 2)

RECURSIVE Canon(_, _, _)
Canon(neg, m, e) ==
  IF m = <<>> THEN Zero
  ELSE IF m[1] = 0 THEN Canon(neg, Tail(m), e + LimbBits)
  ELSE [neg |-> neg, m |-> ShiftRight(m, TrailingZeros(m[1])),
        e |-> e + TrailingZeros(m[1])]

\* the number nearest to m * 2^e (plus a positive rest below 2^e when
\* sticky), ties to even
Round53(neg, m, e, sticky) ==
  IF BitLen(m) <= MantissaBits
  THEN Canon(neg, m, e)
  ELSE LET s == BitLen(m) - MantissaBits
           q == ShiftRight(m, s)
           up == /\ BitAt(m, s - 1)
                 /\ (LowBitsSet(m, s - 1) \/ sticky \/ IsOdd(q))
       IN  Canon(neg, IF up THEN BigAdd(q, <<1>>) ELSE q, e + s)

Num(n) == IF n < 0 THEN Canon(TRUE, BigFromInt(-n), 0) ELSE Canon(FALSE, BigFromInt(n), 0)

\* a * b
NumMul(a, b) == Round53(a.neg # b.neg, BigMul(a.m, b.m), a.e + b.e, FALSE)

\* a / k for an integer k > 0; the quotient is computed to more than 53 bits
GuardBits == 72
NumDivInt(a, k) ==
  IF a.m = <<>> THEN Zero
  ELSE LET d == DivSmall(ShiftLeft(a.m, GuardBits), k)
       IN  Round53(a.neg, d.q, a.e - GuardBits, d.r # 0)

\* a + b for a, b >= 0
NumAdd(a, b) ==
  LET lo == Min(a.e, b.e)
  IN  Round53(FALSE, BigAdd(ShiftLeft(a.m, a.e - lo), ShiftLeft(b.m, b.e - lo)), lo, FALSE)

\* a < b
NumLess(a, b) ==
  LET lo == Min(a.e, b.e)
      x == ShiftLeft(a.m, a.e - lo)
      y == ShiftLeft(b.m, b.e - lo)
  IN  IF a.neg /\ ~b.neg THEN a.m # <<>> \/ b.m # <<>>
      ELSE IF ~a.neg /\ b.neg THEN FALSE
      ELSE IF a.neg THEN BigLess(y, x)
      ELSE BigLess(x, y)

\* Math.max(a, b)
MathMax(a, b) == IF NumLess(a, b) THEN b ELSE a

\* Math.round(a) for a >= 0, as an integer: floor(a + 1/2)
MathRound(a) ==
  IF a.e >= 0
  THEN BigToInt(ShiftLeft(a.m, a.e))
  ELSE BigToInt(ShiftRight(BigAdd(a.m, ShiftLeft(<<1>>, (-a.e) - 1)), -a.e))

\* the number a decimal literal n/d is read as (Number("3.75"))
NumOfDecimal(n, d) == NumDivInt(Num(n), d)

(***************************************************************************)
(* Part 3: the pricing functions of SendParcel (src/unnamed/part_002).     *)
(***************************************************************************)
REGIONS == {"Yangon", "Mandalay", "Naypyidaw", "Bago", "Other"}
SERVICES == {"Standard", "Express", "Same-day"}

base == 2500
perKg == 1200
VolumetricDivisor == 5000

\* serviceType === "Same-day" ? 1.8 : serviceType === "Express" ? 1.35 : 1.0
serviceMultiplier(serviceType) ==
  IF serviceType = "Same-day" THEN NumOfDecimal(18, 10)
  ELSE IF serviceType = "Express" THEN NumOfDecimal(135, 100)
  ELSE Num(1)

\* a tariff without the catch-all region
regionMultiplierNoOther(destinationRegion) ==
  IF destinationRegion = "Yangon" THEN Num(1) ELSE NumOfDecimal(115, 100)

\* destinationRegion === "Yangon" ? 1.0 : destinationRegion === "Other" ? 1.25 : 1.15
regionMultiplier(destinationRegion) ==
  IF destinationRegion = "Yangon" THEN Num(1)
  ELSE IF destinationRegion = "Other" THEN NumOfDecimal(125, 100)
  ELSE NumOfDecimal(115, 100)

\* a price without the base fee
RawPricePerKgOnly(serviceType, destinationRegion, chargeableWeightKg) ==
  NumMul(NumMul(NumMul(Num(perKg), chargeableWeightKg), serviceMultiplier(serviceType)),
         regionMultiplier(destinationRegion))

\* const raw = (base + perKg * chargeableWeightKg) * serviceMultiplier * regionMultiplier
RawPrice(serviceType, destinationRegion, chargeableWeightKg) ==
  NumMul(NumMul(NumAdd(Num(base), NumMul(Num(perKg), chargeableWeightKg)),
                serviceMultiplier(serviceType)),
         regionMultiplier(destinationRegion))

\* return Math.round(raw / 100) * 100   (chargeableWeightKg >= 0)
estimatePriceMMK(serviceType, destinationRegion, chargeableWeightKg) ==
  MathRound(NumDivInt(RawPrice(serviceType, destinationRegion, chargeableWeightKg), 100)) * 100

\* the quotient without Math.max(0, v)
volumetricWeightKgUnfloored(lengthCm, widthCm, heightCm) ==
  NumDivInt(NumMul(NumMul(lengthCm, widthCm), heightCm), VolumetricDivisor)

\* const v = (lengthCm * widthCm * heightCm) / 5000; return Math.max(0, v)
volumetricWeightKg(lengthCm, widthCm, heightCm) ==
  MathMax(Zero, NumDivInt(NumMul(NumMul(lengthCm, widthCm), heightCm), VolumetricDivisor))

(***************************************************************************)
(* Part 4: the quote tab of SendParcel (src/unnamed/part_002, 33-51,       *)
(* 177-248, 352, 525).                                                     *)
(***************************************************************************)
\* number of edits of the form made after the drawn starting values
MaxEdits == 1
\* number of quote submissions
MaxSubmits == 1

\* values the fields of the quote form are given
WeightInputs == {[n |-> 0, d |-> 1], [n |-> 1, d |-> 1], [n |-> 15, d |-> 4],
                 [n |-> 201, d |-> 1]}
LengthInputs == {-1, 0, 20, 50, 301}
WidthInputs == {25, 50}
HeightInputs == {0, 10}

QuoteForms ==
  [serviceType : SERVICES, destinationRegion : REGIONS, weightKg : WeightInputs,
   lengthCm : LengthInputs, widthCm : WidthInputs, heightCm : HeightInputs,
   contact : {"blank", "filled"}]

\* the forms a run starts from: every service, weight and length, with the
\* default region and the contact fields filled in
QuoteStarts ==
  {f \in QuoteForms : /\ f.destinationRegion = defaultValues.destinationRegion
                      /\ f.widthCm = 25 /\ f.heightCm = 10 /\ f.contact = "filled"}

\* messages of the errors a rejected addDoc carries; Null: no message
WriteErrors == {[message |-> "Missing or insufficient permissions."], Null}

\* value || 0
OrZero(x) == IF x = 0 THEN 0 ELSE x

\* volKg = volumetricWeightKg(watched.lengthCm || 0, watched.widthCm || 0, watched.heightCm || 0)
volKg(w) ==
  volumetricWeightKg(Num(OrZero(w.lengthCm)), Num(OrZero(w.widthCm)), Num(OrZero(w.heightCm)))

\* a chargeable weight that ignores the volumetric weight
chargeableKgActual(w) == NumOfDecimal(w.weightKg.n, w.weightKg.d)

\* chargeableKg = Math.max(Number(watched.weightKg || 0), volKg)
chargeableKg(w) == MathMax(NumOfDecimal(w.weightKg.n, w.weightKg.d), volKg(w))

\* estimate = estimatePriceMMK({serviceType, destinationRegion, chargeableWeightKg: chargeableKg})
estimate(w) == estimatePriceMMK(w.serviceType, w.destinationRegion, chargeableKg(w))

\* Calculator.calculateIntl: volWeight = (dims.l * dims.w * dims.h) / divisor
volWeight(dims) ==
  NumDivInt(NumMul(NumMul(Num(dims.l), Num(dims.w)), Num(dims.h)), VolumetricDivisor)

\* Calculator.calculateIntl: chargeable = Math.max(weight, volWeight)
chargeable(weight, dims) == MathMax(weight, volWeight(dims))

\* QuoteSchema: z.coerce.number().positive().max(200) for weightKg,
\* .positive().max(300) for the dimensions, min lengths for the text fields
QuoteSchemaValid(w) ==
  /\ w.contact = "filled"
  /\ w.serviceType \in SERVICES
  /\ w.destinationRegion \in REGIONS
  /\ w.weightKg.n > 0 /\ w.weightKg.n <= 200 * w.weightKg.d
  /\ w.lengthCm > 0 /\ w.lengthCm <= 300
  /\ w.widthCm > 0 /\ w.widthCm <= 300
  /\ w.heightCm > 0 /\ w.heightCm <= 300

\* what the page derives from the form on every render
PricingResult(w) ==
  [volumetricWeightKg |-> volKg(w),
   chargeableWeightKg |-> chargeableKg(w),
   estimatedPriceMMK |-> estimate(w)]

\* the object onSubmitQuote passes to addDoc
QuoteDoc(w) ==
  [values |-> w,
   volumetricWeightKg |-> volKg(w),
   chargeableWeightKg |-> chargeableKg(w),
   estimatedPriceMMK |-> estimate(w),
   source |-> "web_public",
   status |-> "new"]

\* the user changes one field of the quote form
ChangeQuoteField(f, v) ==
  /\ edits < MaxEdits
  /\ v # watched[f]
  /\ watched' = [watched EXCEPT ![f] = v]
  /\ edits' = edits + 1
  /\ UNCHANGED <<submitState, pendingAdd, quotationRequests>>
  /\ UNCHANGED notQuoteVars

\* a submit handler that is handed the form values without validation
SubmitQuoteUnvalidated ==
  /\ ~dom.submitDisabled
  /\ Cardinality(quotationRequests) + BagCardinality(pendingAdd) < MaxSubmits
  /\ submitState' = [type |-> "submitting"]
  /\ pendingAdd' = pendingAdd (+) SetToBag({QuoteDoc(watched)})
  /\ UNCHANGED <<watched, quotationRequests, edits>>
  /\ UNCHANGED notQuoteVars

\* React commits a render of SendParcel: the buttons follow the states
CommitRender ==
  /\ dom # Rendered
  /\ dom' = Rendered
  /\ UNCHANGED <<hookVars, quoteVars, trackVars, signupVars, apiVars>>

\* quoteForm.handleSubmit(onSubmitQuote) up to the await of addDoc; the
\* submit button is disabled once a render with submitState.type
\* "submitting" is committed, and handleSubmit calls onSubmitQuote only
\* with values QuoteSchema accepts
SubmitQuote ==
  /\ ~dom.submitDisabled
  /\ Cardinality(quotationRequests) + BagCardinality(pendingAdd) < MaxSubmits
  /\ QuoteSchemaValid(watched)
  /\ submitState' = [type |-> "submitting"]
  /\ pendingAdd' = pendingAdd (+) SetToBag({QuoteDoc(watched)})
  /\ UNCHANGED <<watched, quotationRequests, edits>>
  /\ UNCHANGED notQuoteVars

\* onSubmitQuote after the await, addDoc fulfilled with a new document id
AddDocResolved(d) ==
  /\ BagIn(d, pendingAdd)
  /\ quotationRequests' = quotationRequests \cup
       {[id |-> Cardinality(quotationRequests) + 1, data |-> d]}
  /\ submitState' = [type |-> "success", requestId |-> Cardinality(quotationRequests) + 1]
  /\ pendingAdd' = pendingAdd (-) SetToBag({d})
  /\ UNCHANGED <<watched, edits>>
  /\ UNCHANGED notQuoteVars

\* a handler without the catch block: the rejection escapes, no state is set
AddDocRejectedUncaught(d, e) ==
  /\ BagIn(d, pendingAdd)
  /\ pendingAdd' = pendingAdd (-) SetToBag({d})
  /\ UNCHANGED <<watched, submitState, quotationRequests, edits>>
  /\ UNCHANGED notQuoteVars

\* onSubmitQuote after the await, addDoc rejected with e: the catch block
AddDocRejected(d, e) ==
  /\ BagIn(d, pendingAdd)
  /\ submitState' = [type |-> "error",
                     message |-> IF e = Null
                                 THEN "Failed to submit request. Please try again."
                                 ELSE e.message]
  /\ pendingAdd' = pendingAdd (-) SetToBag({d})
  /\ UNCHANGED <<watched, quotationRequests, edits>>
  /\ UNCHANGED notQuoteVars

HookAtRest ==
  /\ variant = "snapshot"
  /\ user = Null
  /\ profile = Null
  /\ loading = TRUE
  /\ profileListeners = {}
  /\ pendingReads = {}
  /\ authCount = 0
  /\ tornDown = FALSE
  /\ uncaught = FALSE
  /\ lastEvent = Event("mount", 0, Null, NoDoc)

\* the quote form holds one of the starting forms
QuoteInit ==
  /\ HookAtRest
  /\ TrackAtRest
  /\ SignupAtRest
  /\ ApiAtRest
  /\ watched \in QuoteStarts
  /\ submitState = [type |-> "idle"]
  /\ pendingAdd = EmptyBag
  /\ quotationRequests = {}
  /\ edits = 0

\* the pricing functions over every value of the form: the form holds any
\* values and is edited, volKg, chargeableKg and estimate follow it
PricingInit ==
  /\ HookAtRest
  /\ TrackAtRest
  /\ SignupAtRest
  /\ ApiAtRest
  /\ watched \in QuoteForms
  /\ submitState = [type |-> "idle"]
  /\ pendingAdd = EmptyBag
  /\ quotationRequests = {}
  /\ edits = 0

PricingNext ==
  \/ \E v \in SERVICES : ChangeQuoteField("serviceType", v)
  \/ \E v \in REGIONS : ChangeQuoteField("destinationRegion", v)
  \/ \E v \in WeightInputs : ChangeQuoteField("weightKg", v)
  \/ \E v \in LengthInputs : ChangeQuoteField("lengthCm", v)
  \/ \E v \in WidthInputs : ChangeQuoteField("widthCm", v)
  \/ \E v \in HeightInputs : ChangeQuoteField("heightCm", v)
  \/ \E v \in {"blank", "filled"} : ChangeQuoteField("contact", v)

PricingSpec == PricingInit /\ [][PricingNext]_vars

QuoteNext ==
  \/ PricingNext
  \/ CommitRender
  \/ SubmitQuote
  \/ \E d \in BagToSet(pendingAdd) : AddDocResolved(d)
  \/ \E d \in BagToSet(pendingAdd) : \E e \in WriteErrors : AddDocRejected(d, e)

QuoteSpec == QuoteInit /\ [][QuoteNext]_vars

(***************************************************************************)
(* Part 5: the track tab of SendParcel (src/unnamed/part_002, 55-57,       *)
(* 169-175, 250-285, 596-625).                                             *)
(***************************************************************************)
DocIds == {SHP1, SHP2}

\* data of a shipment document: its field trackingId
ShipmentData == {[trackingId |-> SHP1], [trackingId |-> TRK1]}

Stores == [DocIds -> {NoDoc} \cup {[exists |-> TRUE, data |-> d] : d \in ShipmentData}]

\* what is typed into the tracking field
TrackInputs ==
  {SHP1, <<" ">> \o SHP1 \o <<" ">>, SHP2, TRK1 \o <<" ">>, <<" ", " ", " ", " ">>,
   <<"S", "H", "P">>}

\* errors a rejected getDoc / getDocs carries; Null: no message
ReadErrors == {[message |-> "Failed to get document because the client is offline."], Null}

\* String.prototype.trim
RECURSIVE TrimStart(_)
TrimStart(str) ==
  IF str # <<>> /\ Head(str) \in Whitespace THEN TrimStart(Tail(str)) ELSE str

RECURSIVE TrimEnd(_)
TrimEnd(str) ==
  IF str # <<>> /\ str[Len(str)] \in Whitespace
  THEN TrimEnd(SubSeq(str, 1, Len(str) - 1)) ELSE str

trim(str) == TrimEnd(TrimStart(str))

\* TrackSchema: z.string().min(4)
TrackSchemaValid(trackingId) == Len(trackingId) >= 4

\* { docId: d.id, data: d.data() }
Found(id) == [docId |-> id, data |-> shipments[id].data]

\* getDoc(doc(db, "shipments", trackingId)): the snapshot of that document
DirectRead(trackingId) ==
  IF trackingId \in DOMAIN shipments THEN shipments[trackingId] ELSE NoDoc

\* the documents where("trackingId", "==", trackingId) selects
FieldMatches(trackingId) ==
  {id \in DOMAIN shipments :
     shipments[id].exists /\ shipments[id].data.trackingId = trackingId}

\* the user types into the tracking field
ChangeTrackingId(v) ==
  /\ v # trackInput
  /\ trackInput' = v
  /\ UNCHANGED <<shipments, trackState, lookups, lastFound, trackSubmits, outcomes>>
  /\ UNCHANGED notTrackVars

\* trackForm.handleSubmit(onSubmitTrack) up to the first await of
\* tryFindShipment; the button is disabled once a render with
\* trackState.type "loading" is committed (seq: the number of the call)
SubmitTrack ==
  /\ ~dom.trackDisabled
  /\ trackSubmits < MaxTrackSubmits
  /\ TrackSchemaValid(trackInput)
  /\ trackState' = [type |-> "loading"]
  /\ trackSubmits' = trackSubmits + 1
  /\ lookups' = lookups \cup
       {[seq |-> trackSubmits + 1, input |-> trackInput, id |-> trim(trackInput),
         stage |-> "direct"]}
  /\ UNCHANGED <<shipments, trackInput, lastFound, outcomes>>
  /\ UNCHANGED notTrackVars

\* doc(db, "shipments", "") throws: the path has one segment only
DocRefInvalid(t) ==
  /\ t \in lookups /\ t.stage = "direct" /\ t.id = <<>>
  /\ trackState' = [type |-> "error",
                    message |-> "Invalid document reference."]
  /\ lookups' = lookups \ {t}
  /\ outcomes' = [outcomes EXCEPT ![t.seq] = trackState']
  /\ UNCHANGED <<shipments, trackInput, lastFound, trackSubmits>>
  /\ UNCHANGED notTrackVars

\* a tryFindShipment that treats a direct hit like a miss
DirectResolvedIgnoresHit(t) ==
  /\ t \in lookups /\ t.stage = "direct" /\ t.id # <<>>
  /\ lookups' = (lookups \ {t}) \cup {[t EXCEPT !.stage = "query"]}
  /\ UNCHANGED <<shipments, trackInput, trackState, lastFound, trackSubmits, outcomes>>
  /\ UNCHANGED notTrackVars

\* getDoc fulfilled: a direct hit is returned and onSubmitTrack sets
\* success; otherwise tryFindShipment goes on to the field query
DirectResolved(t) ==
  /\ t \in lookups /\ t.stage = "direct" /\ t.id # <<>>
  /\ IF DirectRead(t.id).exists
     THEN /\ lookups' = lookups \ {t}
          /\ lastFound' = [input |-> t.input, id |-> t.id, direct |-> TRUE,
                           queried |-> FALSE, found |-> Found(t.id)]
          /\ trackState' = [type |-> "success", shipment |-> Found(t.id).data,
                            docId |-> t.id]
          /\ outcomes' = [outcomes EXCEPT ![t.seq] = trackState']
     ELSE /\ lookups' = (lookups \ {t}) \cup {[t EXCEPT !.stage = "query"]}
          /\ UNCHANGED <<trackState, lastFound, outcomes>>
  /\ UNCHANGED <<shipments, trackInput, trackSubmits>>
  /\ UNCHANGED notTrackVars

\* getDocs fulfilled with docs[0] = d: success
QueryResolvedHit(t, d) ==
  /\ t \in lookups /\ t.stage = "query"
  /\ d \in FieldMatches(t.id)
  /\ lookups' = lookups \ {t}
  /\ lastFound' = [input |-> t.input, id |-> t.id, direct |-> FALSE,
                   queried |-> TRUE, found |-> Found(d)]
  /\ trackState' = [type |-> "success", shipment |-> Found(d).data, docId |-> d]
  /\ outcomes' = [outcomes EXCEPT ![t.seq] = trackState']
  /\ UNCHANGED <<shipments, trackInput, trackSubmits>>
  /\ UNCHANGED notTrackVars

\* getDocs fulfilled with an empty snapshot: tryFindShipment returns null
QueryResolvedEmpty(t) ==
  /\ t \in lookups /\ t.stage = "query"
  /\ FieldMatches(t.id) = {}
  /\ lookups' = lookups \ {t}
  /\ lastFound' = [input |-> t.input, id |-> t.id, direct |-> FALSE,
                   queried |-> TRUE, found |-> Null]
  /\ trackState' = [type |-> "not_found"]
  /\ outcomes' = [outcomes EXCEPT ![t.seq] = trackState']
  /\ UNCHANGED <<shipments, trackInput, trackSubmits>>
  /\ UNCHANGED notTrackVars

\* getDoc or getDocs rejected with e: the catch block of onSubmitTrack
ReadRejected(t, e) ==
  /\ t \in lookups /\ t.id # <<>>
  /\ lookups' = lookups \ {t}
  /\ trackState' = [type |-> "error",
                    message |-> IF e = Null THEN "Failed to track. Try again."
                                ELSE e.message]
  /\ outcomes' = [outcomes EXCEPT ![t.seq] = trackState']
  /\ UNCHANGED <<shipments, trackInput, lastFound, trackSubmits>>
  /\ UNCHANGED notTrackVars

\* any content of the shipments collection, the tracking field empty
TrackInit ==
  /\ HookAtRest
  /\ QuoteAtRest
  /\ SignupAtRest
  /\ ApiAtRest
  /\ shipments \in Stores
  /\ trackInput = <<>>
  /\ trackState = [type |-> "idle"]
  /\ lookups = {}
  /\ lastFound = Null
  /\ trackSubmits = 0
  /\ outcomes = [n \in 1..MaxTrackSubmits |-> Null]
  /\ dom = [submitDisabled |-> FALSE, trackDisabled |-> FALSE]

TrackNext ==
  \/ \E v \in TrackInputs : ChangeTrackingId(v)
  \/ CommitRender
  \/ SubmitTrack
  \/ \E t \in lookups : DocRefInvalid(t)
  \/ \E t \in lookups : DirectResolved(t)
  \/ \E t \in lookups : \E d \in DocIds : QueryResolvedHit(t, d)
  \/ \E t \in lookups : QueryResolvedEmpty(t)
  \/ \E t \in lookups : \E e \in ReadErrors : ReadRejected(t, e)

TrackSpec == TrackInit /\ [][TrackNext]_vars

(***************************************************************************)
(* Part 6: the registration page (src/web/src/pages/auth/Signup.tsx).      *)
(***************************************************************************)
\* number of accounts the page is let to create
MaxAccounts == 1

Roles == {"customer", "rider", "driver", "merchant", "sub_station", "warehouse",
          "supervisor"}

ROLE_REQUIREMENTS ==
  [role \in Roles |->
     CASE role = "rider" ->
            <<"Driving License (Front)", "Driving License (Back)", "NRC / ID Card">>
       [] role = "driver" ->
            <<"Driving License (Heavy)", "Vehicle Registration", "NRC / ID Card">>
       [] role = "merchant" -> <<"Business License", "Shop Photo", "Tax ID">>
       [] role = "sub_station" -> <<"Manager ID", "Branch Permit">>
       [] role = "warehouse" -> <<"NRC / ID Card", "Recommendation Letter">>
       [] role = "supervisor" -> <<"NRC / ID Card", "Staff ID">>
       [] role = "customer" -> <<"NRC / ID Card">>]

\* the roles picked in the select: one role for each number of required
\* documents; rider and customer share a document name, sub_station shares
\* none with them
RoleChoices == {"customer", "rider", "sub_station"}

MAX_FILE_MB == 5

\* the files a file input hands over (size in MB), null when none is chosen
FileChoices == {[name |-> "scan.pdf", sizeMB |-> 5], [name |-> "photo.png", sizeMB |-> 6], Null}

\* errors firebase rejects a call with; Null: an error without code and message
FirebaseErrors ==
  {[code |-> "auth/email-already-in-use"],
   [code |-> "storage/unauthorized", message |-> "User does not have permission."],
   Null}

\* a string built from parts (a template literal), as a value of the state
\* error, which is a string or null
Message(parts) == [message |-> parts]

formatFirebaseError(err) ==
  LET code == IF err # Null /\ "code" \in DOMAIN err THEN err.code ELSE "undefined"
  IN  CASE code = "auth/email-already-in-use" ->
             <<"This email is already registered. Please log in instead.">>
        [] code = "auth/invalid-email" -> <<"Please enter a valid email address.">>
        [] code = "auth/weak-password" ->
             <<"Password is too weak. Use at least 8 characters.">>
        [] code = "auth/network-request-failed" ->
             <<"Network error. Please check your connection and try again.">>
        [] OTHER -> IF err # Null /\ "message" \in DOMAIN err THEN <<err.message>>
                    ELSE <<"Registration failed. Please try again.">>

\* requiredDocs = ROLE_REQUIREMENTS[formData.role] ?? []
requiredDocs(role) == IF role \in DOMAIN ROLE_REQUIREMENTS THEN ROLE_REQUIREMENTS[role] ELSE <<>>

\* !files[docName]
NoFile(fs, docName) == docName \notin DOMAIN fs \/ fs[docName] = Null

\* for (const docName of requiredDocs) if (!files[docName]) return docName; return null
\* (the name found is returned as [docName |-> name])
RECURSIVE FirstWithoutFile(_, _)
FirstWithoutFile(docs, fs) ==
  IF docs = <<>> THEN Null
  ELSE IF NoFile(fs, Head(docs)) THEN [docName |-> Head(docs)]
  ELSE FirstWithoutFile(Tail(docs), fs)

missingRequiredDoc == FirstWithoutFile(requiredDocs(formData.role), files)

\* a role select that keeps the files chosen so far
ChangeRoleKeepsFiles(role) ==
  /\ location = "/signup"
  /\ role # formData.role
  /\ formData' = [formData EXCEPT !.role = role]
  /\ UNCHANGED <<files, signupLoading, signupError, registrations, authUsers,
                 storageObjects, userDocs, location>>
  /\ UNCHANGED notSignupVars

\* the role select: setFiles({}); updateForm({ role })
ChangeRole(role) ==
  /\ location = "/signup"
  /\ role # formData.role
  /\ files' = <<>>
  /\ formData' = [formData EXCEPT !.role = role]
  /\ UNCHANGED <<signupLoading, signupError, registrations, authUsers, storageObjects,
                 userDocs, location>>
  /\ UNCHANGED notSignupVars

handleFileChange(docName, file) ==
  /\ location = "/signup"
  /\ IF file # Null /\ file.sizeMB * 1024 * 1024 > MAX_FILE_MB * 1024 * 1024
     THEN /\ signupError' = Message(<<"File too large: \"", docName, "\". Max ", MAX_FILE_MB, "MB.">>)
          /\ UNCHANGED files
     ELSE /\ signupError' = Null
          /\ files' = [k \in DOMAIN files \cup {docName} |->
                         IF k = docName THEN file ELSE files[k]]
  /\ UNCHANGED <<formData, signupLoading, registrations, authUsers, storageObjects,
                 userDocs, location>>
  /\ UNCHANGED notSignupVars

\* the submit button is disabled while loading
CanSubmitRegistration ==
  /\ location = "/signup"
  /\ ~signupLoading

\* another account may still be created
AccountsLeft == Cardinality(authUsers) + Cardinality(registrations) < MaxAccounts

\* a handler that skips the check of the required documents
handleRegisterUnchecked ==
  /\ CanSubmitRegistration
  /\ AccountsLeft
  /\ signupError' = Null
  /\ signupLoading' = TRUE
  /\ registrations' = registrations \cup
       {[role |-> formData.role, files |-> files, stage |-> "createUser", next |-> 1,
         uid |-> 0, documentUrls |-> {}]}
  /\ UNCHANGED <<formData, files, authUsers, storageObjects, userDocs, location>>
  /\ UNCHANGED notSignupVars

\* handleRegister up to its return or its first await
handleRegister ==
  /\ CanSubmitRegistration
  /\ IF Len(requiredDocs(formData.role)) > 0 /\ missingRequiredDoc # Null
     THEN /\ signupError' = Message(<<"Please upload: ", missingRequiredDoc.docName>>)
          /\ UNCHANGED <<signupLoading, registrations>>
     ELSE /\ AccountsLeft
          /\ signupError' = Null
          /\ signupLoading' = TRUE
          /\ registrations' = registrations \cup
               {[role |-> formData.role, files |-> files, stage |-> "createUser",
                 next |-> 1, uid |-> 0, documentUrls |-> {}]}
  /\ UNCHANGED <<formData, files, authUsers, storageObjects, userDocs, location>>
  /\ UNCHANGED notSignupVars

\* the stage after document number i - 1 is done: the next document of
\* requiredDocs with a file is uploaded, after the last one the profile is written
RECURSIVE UploadFrom(_, _)
UploadFrom(g, i) ==
  IF i > Len(requiredDocs(g.role)) THEN [g EXCEPT !.stage = "setDoc", !.next = i]
  ELSE IF NoFile(g.files, requiredDocs(g.role)[i]) THEN UploadFrom(g, i + 1)
  ELSE [g EXCEPT !.stage = "uploadBytes", !.next = i]

\* a handler that writes the profile right after the account is created
CreateUserResolvedSkipsUploads(g) ==
  /\ g \in registrations /\ g.stage = "createUser"
  /\ LET uid == Cardinality(authUsers) + 1
     IN  /\ authUsers' = authUsers \cup
               {[uid |-> uid, role |-> g.role, profileUpdated |-> FALSE]}
         /\ registrations' = (registrations \ {g}) \cup
               {[g EXCEPT !.uid = uid, !.stage = "setDoc"]}
  /\ UNCHANGED <<formData, files, signupLoading, signupError, storageObjects, userDocs,
                 location>>
  /\ UNCHANGED notSignupVars

\* createUserWithEmailAndPassword fulfilled (role: the role the account was
\* registered for, kept as history)
CreateUserResolved(g) ==
  /\ g \in registrations /\ g.stage = "createUser"
  /\ LET uid == Cardinality(authUsers) + 1
     IN  /\ authUsers' = authUsers \cup
               {[uid |-> uid, role |-> g.role, profileUpdated |-> FALSE]}
         /\ registrations' = (registrations \ {g}) \cup {UploadFrom([g EXCEPT !.uid = uid], 1)}
  /\ UNCHANGED <<formData, files, signupLoading, signupError, storageObjects, userDocs,
                 location>>
  /\ UNCHANGED notSignupVars

\* uploadBytes fulfilled
UploadBytesResolved(g) ==
  /\ g \in registrations /\ g.stage = "uploadBytes"
  /\ storageObjects' = storageObjects \cup
       {[uid |-> g.uid, docName |-> requiredDocs(g.role)[g.next],
         file |-> g.files[requiredDocs(g.role)[g.next]]]}
  /\ registrations' = (registrations \ {g}) \cup {[g EXCEPT !.stage = "getDownloadURL"]}
  /\ UNCHANGED <<formData, files, signupLoading, signupError, authUsers, userDocs,
                 location>>
  /\ UNCHANGED notSignupVars

\* getDownloadURL fulfilled
GetDownloadURLResolved(g) ==
  /\ g \in registrations /\ g.stage = "getDownloadURL"
  /\ registrations' = (registrations \ {g}) \cup
       {UploadFrom([g EXCEPT !.documentUrls = @ \cup {requiredDocs(g.role)[g.next]}],
                   g.next + 1)}
  /\ UNCHANGED <<formData, files, signupLoading, signupError, authUsers, storageObjects,
                 userDocs, location>>
  /\ UNCHANGED notSignupVars

\* setDoc(doc(db, "users", user.uid), {...}) fulfilled
SetDocResolved(g) ==
  /\ g \in registrations /\ g.stage = "setDoc"
  /\ userDocs' = {d \in userDocs : d.uid # g.uid} \cup
       {[uid |-> g.uid, role |-> g.role, status |-> "pending",
         documents |-> g.documentUrls]}
  /\ registrations' = (registrations \ {g}) \cup {[g EXCEPT !.stage = "updateProfile"]}
  /\ UNCHANGED <<formData, files, signupLoading, signupError, authUsers, storageObjects,
                 location>>
  /\ UNCHANGED notSignupVars

\* updateProfile fulfilled: navigate, then the finally block
UpdateProfileResolved(g) ==
  /\ g \in registrations /\ g.stage = "updateProfile"
  /\ authUsers' = {IF a.uid = g.uid THEN [a EXCEPT !.profileUpdated = TRUE] ELSE a :
                     a \in authUsers}
  /\ location' = "/pending-approval"
  /\ signupLoading' = FALSE
  /\ registrations' = registrations \ {g}
  /\ UNCHANGED <<formData, files, signupError, storageObjects, userDocs>>
  /\ UNCHANGED notSignupVars

\* the awaited call rejected with err: the catch block, then the finally block
RegisterRejected(g, err) ==
  /\ g \in registrations
  /\ signupError' = Message(formatFirebaseError(err))
  /\ signupLoading' = FALSE
  /\ registrations' = registrations \ {g}
  /\ UNCHANGED <<formData, files, authUsers, storageObjects, userDocs, location>>
  /\ UNCHANGED notSignupVars

SignupInit ==
  /\ HookAtRest
  /\ QuoteAtRest
  /\ TrackAtRest
  /\ SignupAtRest
  /\ ApiAtRest

SignupNext ==
  \/ \E role \in RoleChoices : ChangeRole(role)
  \/ \E i \in 1..Len(requiredDocs(formData.role)) : \E file \in FileChoices :
       handleFileChange(requiredDocs(formData.role)[i], file)
  \/ handleRegister
  \/ \E g \in registrations : CreateUserResolved(g)
  \/ \E g \in registrations : UploadBytesResolved(g)
  \/ \E g \in registrations : GetDownloadURLResolved(g)
  \/ \E g \in registrations : SetDocResolved(g)
  \/ \E g \in registrations : UpdateProfileResolved(g)
  \/ \E g \in registrations : \E err \in FirebaseErrors : RegisterRejected(g, err)

SignupSpec == SignupInit /\ [][SignupNext]_vars

(***************************************************************************)
(* Part 7: the auth calls of the api client (src/web/src/api/auth.ts and   *)
(* src/unnamed/part_003; setAuthToken and toApiErrorMessage of             *)
(* src/api/client.ts, src/web/src/components/ui/button.tsx 101-124).       *)
(* A string that may be null or undefined is a record [str |-> ...] or     *)
(* Null; the header `Bearer ${token}` is the record Bearer(token).         *)
(***************************************************************************)
\* number of calls of login, register, refreshToken and logout
MaxApiCalls == 3

AuthKinds == {"login", "register", "refreshToken"}

\* res.data.tokens.accessToken / res.data.accessToken of a response
AccessTokens == {[str |-> "tokA"], [str |-> "tokB"], [str |-> ""]}

Bearer(token) == [scheme |-> "Bearer", token |-> token.str]

\* what api.post rejects with: an AxiosError (with the server's
\* response.data.message / response.data.error, or without a response) or
\* another thrown value; a field that is undefined is the empty string,
\* which || treats alike
ApiFailures ==
  { [axios |-> TRUE, dataMessage |-> "Invalid credentials", dataError |-> "",
     message |-> "Request failed with status code 401"],
    [axios |-> TRUE, dataMessage |-> "", dataError |-> "unauthorized",
     message |-> "Request failed with status code 401"],
    [axios |-> TRUE, dataMessage |-> "", dataError |-> "", message |-> "Network Error"],
    [axios |-> TRUE, dataMessage |-> "", dataError |-> "", message |-> ""],
    [axios |-> FALSE, dataMessage |-> "", dataError |-> "", message |-> "boom"] }

\* the Authorization header after setAuthToken(token)
setAuthToken(token) ==
  IF token # Null /\ token.str # "" THEN Bearer(token) ELSE Null

toApiErrorMessage(err) ==
  IF err.axios
  THEN IF err.dataMessage # "" THEN err.dataMessage
       ELSE IF err.dataError # "" THEN err.dataError
       ELSE IF err.message # "" THEN err.message
       ELSE "Request failed"
  ELSE "Unknown error"

\* login(payload), register(payload) or refreshToken(token) up to the await
\* of api.post
CallAuth(kind) ==
  /\ apiCalls < MaxApiCalls
  /\ apiCalls' = apiCalls + 1
  /\ requests' = requests \cup {[id |-> apiCalls + 1, kind |-> kind]}
  /\ sinceLogout' = FALSE
  /\ UNCHANGED <<authorization, lastCall>>
  /\ UNCHANGED notApiVars

\* login, register or refreshToken after the await, api.post fulfilled with
\* a response that carries the access token
AuthResolved(q, token) ==
  /\ q \in requests
  /\ q.kind \in AuthKinds
  /\ authorization' = setAuthToken(token)
  /\ requests' = requests \ {q}
  /\ lastCall' = [id |-> q.id, kind |-> q.kind, failed |-> FALSE,
                  outcome |-> "returned", token |-> token,
                  before |-> authorization]
  /\ UNCHANGED <<apiCalls, sinceLogout>>
  /\ UNCHANGED notApiVars

\* a catch block that clears the token before it rethrows
AuthRejectedClearsToken(q, err) ==
  /\ q \in requests
  /\ q.kind \in AuthKinds
  /\ authorization' = setAuthToken(Null)
  /\ requests' = requests \ {q}
  /\ lastCall' = [id |-> q.id, kind |-> q.kind, failed |-> TRUE,
                  outcome |-> "threw", err |-> err,
                  message |-> toApiErrorMessage(err), before |-> authorization]
  /\ UNCHANGED <<apiCalls, sinceLogout>>
  /\ UNCHANGED notApiVars

\* login, register or refreshToken after the await, api.post rejected with
\* err: throw new Error(toApiErrorMessage(err))
AuthRejected(q, err) ==
  /\ q \in requests
  /\ q.kind \in AuthKinds
  /\ requests' = requests \ {q}
  /\ lastCall' = [id |-> q.id, kind |-> q.kind, failed |-> TRUE,
                  outcome |-> "threw", err |-> err,
                  message |-> toApiErrorMessage(err), before |-> authorization]
  /\ UNCHANGED <<authorization, apiCalls, sinceLogout>>
  /\ UNCHANGED notApiVars

\* logout() up to the await of api.post("/auth/logout")
logout ==
  /\ apiCalls < MaxApiCalls
  /\ apiCalls' = apiCalls + 1
  /\ requests' = requests \cup {[id |-> apiCalls + 1, kind |-> "logout"]}
  /\ UNCHANGED <<authorization, lastCall, sinceLogout>>
  /\ UNCHANGED notApiVars

\* logout() after the await, the request fulfilled: the finally block
LogoutResolved(q) ==
  /\ q \in requests
  /\ q.kind = "logout"
  /\ authorization' = setAuthToken(Null)
  /\ requests' = requests \ {q}
  /\ lastCall' = [id |-> q.id, kind |-> "logout", failed |-> FALSE,
                  outcome |-> "returned", before |-> authorization]
  /\ sinceLogout' = TRUE
  /\ UNCHANGED apiCalls
  /\ UNCHANGED notApiVars

\* a logout whose catch block is not followed by the finally block
LogoutRejectedKeepsToken(q, err) ==
  /\ q \in requests
  /\ q.kind = "logout"
  /\ requests' = requests \ {q}
  /\ lastCall' = [id |-> q.id, kind |-> "logout", failed |-> TRUE,
                  outcome |-> "returned", err |-> err, before |-> authorization]
  /\ sinceLogout' = TRUE
  /\ UNCHANGED <<authorization, apiCalls>>
  /\ UNCHANGED notApiVars

\* logout() after the await, the request rejected with err: the empty catch
\* block, then the finally block
LogoutRejected(q, err) ==
  /\ q \in requests
  /\ q.kind = "logout"
  /\ authorization' = setAuthToken(Null)
  /\ requests' = requests \ {q}
  /\ lastCall' = [id |-> q.id, kind |-> "logout", failed |-> TRUE,
                  outcome |-> "returned", err |-> err, before |-> authorization]
  /\ sinceLogout' = TRUE
  /\ UNCHANGED apiCalls
  /\ UNCHANGED notApiVars

AuthApiInit ==
  /\ HookAtRest
  /\ PagesAtRest

AuthApiNext ==
  \/ \E kind \in AuthKinds : CallAuth(kind)
  \/ \E q \in requests : \E token \in AccessTokens : AuthResolved(q, token)
  \/ \E q \in requests : \E err \in ApiFailures : AuthRejected(q, err)
  \/ logout
  \/ \E q \in requests : LogoutResolved(q)
  \/ \E q \in requests : \E err \in ApiFailures : LogoutRejected(q, err)

AuthApiSpec == AuthApiInit /\ [][AuthApiNext]_vars

(***************************************************************************)
(* The same program under the assumption that the document store answers:  *)
(* the first answer to every listener and to every awaited read arrives.   *)
(***************************************************************************)
FirstAnswer(id) ==
  \/ \E l \in profileListeners :
       /\ l.id = id
       /\ l.delivered = 0
       /\ \/ \E snap \in Snapshots(l.u.uid) : SnapshotDelivered(l, snap)
          \/ ListenerError(l)
  \/ \E r \in pendingReads :
       /\ r.id = id
       /\ \/ \E snap \in Snapshots(r.u.uid) : GetDocResolved(r, snap)
          \/ GetDocRejected(r)

FairSpec == Init /\ [][Next]_vars /\ \A id \in 1..MaxAuth : WF_vars(FirstAnswer(id))

(***************************************************************************)
(* Vocabulary of the properties.                                           *)
(***************************************************************************)
\* listeners that have neither been unsubscribed nor ended by an error
Live == {l \in profileListeners : l.st = "open"}

\* the listener opened by the latest auth notification, if that carried a user
Current == {l \in profileListeners : l.id = authCount}

\* the customer default as the specification words it
CustomerDefault(u) ==
  IF "displayName" \in DOMAIN u /\ "email" \in DOMAIN u
  THEN [role |-> "customer", displayName |-> u.displayName, email |-> u.email]
  ELSE IF "displayName" \in DOMAIN u
  THEN [role |-> "customer", displayName |-> u.displayName]
  ELSE IF "email" \in DOMAIN u
  THEN [role |-> "customer", email |-> u.email]
  ELSE [role |-> "customer"]

\* a callback (onData or onError) of the listener l runs in this step
ListenerCallback(l) ==
  \/ \E snap \in Snapshots(l.u.uid) : SnapshotDelivered(l, snap)
  \/ ListenerError(l)

\* the latest identity is a user and nothing has answered for it yet
FirstValuePending ==
  /\ user # Null
  /\ \/ \E l \in Current : l.st = "open" /\ l.delivered = 0
     \/ \E r \in pendingReads : r.id = authCount

(***************************************************************************)
(* C1 (snapshot variant).  After the auth stream switched from identity U  *)
(* to identity V, no onData/onError callback of U's profile listener       *)
(* changes the published (user, profile, loading).                         *)
(* Violated: the listener of U is never unsubscribed, so its callbacks     *)
(* keep running and overwrite profile and loading.                         *)
(***************************************************************************)
C1_StaleListenerSilent ==
  [][\A l \in profileListeners :
       (user # Null /\ l.u # user /\ ListenerCallback(l)) => UNCHANGED pub]_vars

(***************************************************************************)
(* C2 (both variants).  After the effect cleanup has run, no later event   *)
(* changes user, profile or loading.                                       *)
(* Violated: the cleanup only detaches the auth observer; open profile     *)
(* listeners and awaited reads still call the state setters.               *)
(***************************************************************************)
C2_NoUpdateAfterTeardown ==
  [][tornDown => UNCHANGED pub]_vars

(***************************************************************************)
(* C3 (both variants).  Whenever the identity is null the published state  *)
(* is exactly user = null, profile = null, loading = false.  The formula   *)
(* states it for every state from the first auth notification on, that is, *)
(* for every state after a logout; the state before the first notification *)
(* (user = null with loading = true from useState(true)) falls under the   *)
(* claim as well and contradicts it too.                                   *)
(* Violated after a logout: a profile listener of the signed-out user, or  *)
(* a read started for it, still publishes a profile.                       *)
(***************************************************************************)
C3_LoggedOutIsCleared ==
  (authCount > 0 /\ user = Null) => (profile = Null /\ loading = FALSE)

(***************************************************************************)
(* C4 (snapshot variant).  At most one profile listener is live, it        *)
(* belongs to the current identity, and none is live when the identity is  *)
(* null or after teardown.                                                 *)
(* Violated: no path of the hook unsubscribes a profile listener.          *)
(***************************************************************************)
C4_OneLiveListener ==
  /\ Cardinality(Live) <= 1
  /\ \A l \in Live : l.u = user
  /\ (user = Null \/ tornDown) => Live = {}

(***************************************************************************)
(* C5 (snapshot variant).  When the onError callback of a listener opened  *)
(* for identity U has run, profile is the customer default built from U,   *)
(* loading is false and no error has escaped the hook.                     *)
(***************************************************************************)
C5_ErrorGivesDefault ==
  lastEvent.kind = "error" =>
    /\ profile = CustomerDefault(lastEvent.u)
    /\ loading = FALSE
    /\ uncaught = FALSE

C5_Witness ==
  /\ lastEvent.kind = "error"
  /\ lastEvent.u = U1
  /\ user = U1
  /\ profile = [role |-> "customer", displayName |-> "Ann", email |-> "ann@britium.mm"]
  /\ loading = FALSE

(***************************************************************************)
(* C6 (snapshot variant).  When the listener of the current identity U has *)
(* just reported that users/{uid} does not exist, the state is user = U,   *)
(* profile = customer default of U (without the fields U lacks),           *)
(* loading = false.                                                        *)
(***************************************************************************)
C6_MissingDocGivesDefault ==
  (lastEvent.kind = "snapshot" /\ ~lastEvent.snap.exists /\ lastEvent.u = user) =>
    /\ user \in Users
    /\ profile = CustomerDefault(user)
    /\ loading = FALSE

C6_Witness ==
  /\ lastEvent.kind = "snapshot"
  /\ ~lastEvent.snap.exists
  /\ lastEvent.u = U2
  /\ user = U2
  /\ profile = [role |-> "customer"]
  /\ loading = FALSE

(***************************************************************************)
(* C7 (both variants).  loading is true in every state between an auth     *)
(* transition to a user U and the first profile value resolved for U.      *)
(* Violated: a callback of a previous identity's listener (or the          *)
(* continuation of a previous identity's read) sets loading to false while *)
(* U's first value is still pending.                                       *)
(***************************************************************************)
C7_LoadingWhilePending ==
  FirstValuePending => loading = TRUE

(***************************************************************************)
(* C8 (both variants, FairSpec).  If the document store answers, a state   *)
(* with a signed-in user and loading = true leads to loading = false,      *)
(* whether the answer is a document, a missing document or an error.       *)
(***************************************************************************)
C8_LoadingEnds ==
  (user # Null /\ loading) ~> (~loading)

C8_Witness ==
  /\ user # Null
  /\ ~loading
  /\ \/ lastEvent.kind \in {"error", "rejected"}
     \/ lastEvent.kind \in {"snapshot", "resolved"} /\ ~lastEvent.snap.exists
  /\ lastEvent.id = authCount

(***************************************************************************)
(* C9 (snapshot variant).  While the identity is U, after a snapshot of    *)
(* U's document was delivered, profile is exactly the data of that latest  *)
(* snapshot (no field added, dropped or defaulted), or the customer        *)
(* default when the snapshot reports no document.                          *)
(***************************************************************************)
C9_ProfileIsLatestSnapshot ==
  (lastEvent.kind = "snapshot" /\ lastEvent.u = user) =>
    profile = IF lastEvent.snap.exists THEN lastEvent.snap.data
              ELSE CustomerDefault(user)

C9_Witness ==
  /\ lastEvent.kind = "snapshot"
  /\ lastEvent.u = user
  /\ \E l \in Current : l.delivered >= 2 /\ lastEvent.id = l.id
  /\ profile = [displayName |-> "Ann K", email |-> "ann@britium.mm"]

(***************************************************************************)
(* C10 (snapshot variant).  Once the first snapshot for the current        *)
(* identity has been delivered, loading is false and profile is not null   *)
(* in every state until the identity changes, however many further         *)
(* snapshots arrive.                                                       *)
(***************************************************************************)
C10_UpdateInPlace ==
  (variant = "snapshot" /\ user # Null /\ \E l \in Current : l.delivered >= 1) =>
    (loading = FALSE /\ profile # Null)

C10_Witness ==
  /\ variant = "snapshot"
  /\ user = U1
  /\ \E l \in Current : l.delivered >= 2 /\ l.st = "open"
  /\ lastEvent.kind = "snapshot"
  /\ lastEvent.id = authCount
  /\ loading = FALSE
  /\ profile \in ProfileDocs("u1")

(***************************************************************************)
(* C11 (snapshot variant).  When the profile listener of identity U errors *)
(* while a profile is cached, the cached profile is overwritten by the     *)
(* customer default of U: afterwards the role is "customer" and the cached *)
(* stationId and stationName are gone.                                     *)
(***************************************************************************)
C11_ErrorOverwritesCached ==
  (lastEvent.kind = "error" /\ lastEvent.snap.data # Null) =>
    /\ profile = CustomerDefault(lastEvent.u)
    /\ profile.role = "customer"
    /\ "stationId" \notin DOMAIN profile
    /\ "stationName" \notin DOMAIN profile

C11_Witness ==
  /\ lastEvent.kind = "error"
  /\ lastEvent.u = U1
  /\ user = U1
  /\ lastEvent.snap.data = [role |-> "manager", stationId |-> "st1",
                            stationName |-> "Hub", email |-> "ann@britium.mm"]
  /\ profile = [role |-> "customer", displayName |-> "Ann", email |-> "ann@britium.mm"]

ServicePct(serviceType) ==
  IF serviceType = "Same-day" THEN 180 ELSE IF serviceType = "Express" THEN 135 ELSE 100

RegionPct(destinationRegion) ==
  IF destinationRegion = "Yangon" THEN 100
  ELSE IF destinationRegion = "Other" THEN 125 ELSE 115

FracBits(x) == IF x.e < 0 THEN -x.e ELSE 0

\* (base + perKg * x) * s * r, times 10000 * 2^k
ExactRaw(serviceType, destinationRegion, x) ==
  BigMul(BigAdd(ShiftLeft(BigFromInt(base), FracBits(x)),
                BigMul(BigFromInt(perKg), ShiftLeft(x.m, x.e + FracBits(x)))),
         BigFromInt(ServicePct(serviceType) * RegionPct(destinationRegion)))

\* the amount p, times 10000 * 2^k
ExactAmount(p, x) == ShiftLeft(BigMul(BigFromInt(p), BigFromInt(10000)), FracBits(x))

\* v is a number nearest to n / d (n >= 0, d > 0, v >= 0)
NearestTo(v, n, d) ==
  IF n = 0 THEN v = Zero
  ELSE LET t == MantissaBits - BitLen(v.m)
           x == ShiftLeft(BigMul(BigFromInt(2 * d), v.m), t)
           y == ShiftLeft(BigFromInt(2 * n), t - v.e)
       IN  /\ ~v.neg
           /\ BigLeq(x, BigAdd(y, BigFromInt(d)))
           /\ BigLeq(y, BigAdd(x, BigFromInt(d)))

(***************************************************************************)
(* C12.  For every service type, region and chargeable weight w >= 0 the   *)
(* estimate is a multiple of 100 nearest to (2500 + 1200 w) * s * r, with  *)
(* s = 1.0 / 1.35 / 1.8 and r = 1.0 (Yangon) / 1.25 (Other) / 1.15; for    *)
(* (Standard, Yangon, 1) it is 3700, for (Same-day, Other, 1) it is 8300.  *)
(***************************************************************************)
C12_EstimateFormula ==
  LET x == chargeableKg(watched)
      p == estimate(watched)
      raw == ExactRaw(watched.serviceType, watched.destinationRegion, x)
  IN  /\ p % 100 = 0
      /\ BigLeq(ExactAmount(p - 50, x), raw)
      /\ BigLeq(raw, ExactAmount(p + 50, x))
      /\ (x = Num(1) /\ watched.serviceType = "Standard"
            /\ watched.destinationRegion = "Yangon") => p = 3700
      /\ (x = Num(1) /\ watched.serviceType = "Same-day"
            /\ watched.destinationRegion = "Other") => p = 8300

C12_Witness ==
  /\ watched.serviceType = "Same-day"
  /\ watched.destinationRegion = "Other"
  /\ chargeableKg(watched) = Num(1)
  /\ estimate(watched) = 8300

(***************************************************************************)
(* C13.  The estimate is a multiple of 100 within 50 of the raw price      *)
(* (base + perKg w) * s * r, and a raw price exactly halfway between two   *)
(* multiples of 100 gives the higher one: p - 50 <= raw < p + 50.          *)
(* Violated: the product is computed in binary floating point, where       *)
(* 7000 * 1.15 is 8049.999999999999, so the raw price 8050 of (Standard,   *)
(* Mandalay, 3.75 kg) gives 8000.                                          *)
(***************************************************************************)
C13_HalfwayRoundsUp ==
  LET x == chargeableKg(watched)
      p == estimate(watched)
      raw == ExactRaw(watched.serviceType, watched.destinationRegion, x)
  IN  /\ p % 100 = 0
      /\ BigLeq(ExactAmount(p - 50, x), raw)
      /\ BigLess(raw, ExactAmount(p + 50, x))

(***************************************************************************)
(* C14.  For non-negative length, width and height volumetricWeightKg is   *)
(* length * width * height / 5000 (the number nearest to the quotient),    *)
(* which is 0 when a dimension is 0, and so is the volWeight of the        *)
(* calculator; for every input volumetricWeightKg is not below 0.          *)
(***************************************************************************)
C14_VolumetricWeight ==
  LET l == watched.lengthCm
      w == watched.widthCm
      h == watched.heightCm
      v == volumetricWeightKg(Num(l), Num(w), Num(h))
  IN  /\ ~NumLess(v, Zero)
      /\ (l >= 0 /\ w >= 0 /\ h >= 0) =>
           /\ NearestTo(v, l * w * h, VolumetricDivisor)
           /\ (l * w * h) % VolumetricDivisor = 0 => v = Num((l * w * h) \div VolumetricDivisor)
           /\ (l = 0 \/ w = 0 \/ h = 0) => v = Zero
           /\ volWeight([l |-> l, w |-> w, h |-> h]) = v

C14_Witness ==
  /\ watched.lengthCm = 301 /\ watched.widthCm = 25 /\ watched.heightCm = 10
  /\ volKg(watched) = NumOfDecimal(1505, 100)

(***************************************************************************)
(* C15.  The chargeable weight is max(actual, volumetric) for actual,      *)
(* volumetric >= 0: not smaller than either, equal to one of them, equal   *)
(* to the common value when they are equal (SendParcel and calculator).    *)
(***************************************************************************)
C15_ChargeableIsMax ==
  LET a == NumOfDecimal(watched.weightKg.n, watched.weightKg.d)
      v == volKg(watched)
      c == chargeableKg(watched)
      dims == [l |-> watched.lengthCm, w |-> watched.widthCm, h |-> watched.heightCm]
  IN  /\ ~NumLess(c, a) /\ ~NumLess(c, v)
      /\ c \in {a, v}
      /\ a = v => c = a
      /\ ~NumLess(volWeight(dims), Zero) => chargeable(a, dims) = c

C15_Witness ==
  /\ NumLess(NumOfDecimal(watched.weightKg.n, watched.weightKg.d), volKg(watched))
  /\ watched.weightKg.n > 0
  /\ chargeableKg(watched) = volKg(watched)

(***************************************************************************)
(* C16.  For every service type, region and chargeable weight >= 0 the     *)
(* estimate is a positive integer not below the base fee 2500.             *)
(***************************************************************************)
C16_AtLeastBase ==
  /\ estimate(watched) \in Nat
  /\ estimate(watched) > 0
  /\ estimate(watched) >= base

C16_Witness ==
  /\ chargeableKg(watched) = Zero
  /\ estimate(watched) = base

\* weight <= 0 or above 200 kg, a dimension below 0 or above 300 cm
OutOfRange(w) ==
  \/ w.weightKg.n <= 0
  \/ w.weightKg.n > 200 * w.weightKg.d
  \/ \E f \in {"lengthCm", "widthCm", "heightCm"} : w[f] < 0 \/ w[f] > 300

\* the values of the requests handed to addDoc so far
SubmittedValues ==
  {d.values : d \in BagToSet(pendingAdd)} \cup {r.data.values : r \in quotationRequests}

(***************************************************************************)
(* C17 as stated.  For out-of-range input (weight <= 0 or above 200 kg, a  *)
(* dimension below 0 or above 300 cm) the pricing functions give an error  *)
(* result and no price or weight.                                          *)
(* Violated: they are total and return numbers for every input.            *)
(***************************************************************************)
C17_RejectsOutOfRange ==
  OutOfRange(watched) =>
    /\ "error" \in DOMAIN PricingResult(watched)
    /\ "estimatedPriceMMK" \notin DOMAIN PricingResult(watched)

(***************************************************************************)
(* C17 amended.  The pricing functions never give an error: for            *)
(* out-of-range input they return a price and weights computed from it     *)
(* (the volumetric weight floored at 0).  The ranges are enforced by       *)
(* QuoteSchema when the form is submitted: no request is handed to addDoc  *)
(* or stored with out-of-range values.                                     *)
(***************************************************************************)
C17_RangeCheckedOnSubmit ==
  /\ OutOfRange(watched) =>
       /\ DOMAIN PricingResult(watched) =
            {"volumetricWeightKg", "chargeableWeightKg", "estimatedPriceMMK"}
       /\ estimate(watched) \in Nat
       /\ ~NumLess(volKg(watched), Zero)
  /\ \A v \in SubmittedValues : ~OutOfRange(v) /\ QuoteSchemaValid(v)

C17_Witness ==
  /\ OutOfRange(watched)
  /\ estimate(watched) >= base
  /\ submitState.type = "success"
  /\ quotationRequests # {}

(***************************************************************************)
(* C19.  tryFindShipment looks the id up as a document id first and runs   *)
(* the field query only when no such document exists; when both a          *)
(* document with that id and a document with that trackingId exist the     *)
(* former is returned; null is returned only when both lookups find        *)
(* nothing; onSubmitTrack passes the trimmed tracking id.                  *)
(***************************************************************************)
C19_DirectFirst ==
  lastFound # Null =>
    LET id == lastFound.id
        byId == DirectRead(id).exists
    IN  /\ id = trim(lastFound.input)
        /\ lastFound.direct = byId
        /\ lastFound.queried = ~byId
        /\ byId => lastFound.found = Found(id)
        /\ (~byId /\ lastFound.found # Null) =>
             /\ lastFound.found.docId \in FieldMatches(id)
             /\ lastFound.found = Found(lastFound.found.docId)
        /\ lastFound.found = Null <=> (~byId /\ FieldMatches(id) = {})
        /\ trackState.type = "success" =>
             /\ trackState.docId = lastFound.found.docId
             /\ trackState.shipment = lastFound.found.data

C19_Witness ==
  /\ lastFound # Null
  /\ lastFound.input # lastFound.id
  /\ DirectRead(lastFound.id).exists
  /\ FieldMatches(lastFound.id) \ {lastFound.id} # {}
  /\ lastFound.found = Found(lastFound.id)
  /\ trackState.type = "success"

\* positions in the role's table row of the documents that have no file
MissingPositions ==
  {i \in 1..Len(ROLE_REQUIREMENTS[formData.role]) :
     \/ ROLE_REQUIREMENTS[formData.role][i] \notin DOMAIN files
     \/ files[ROLE_REQUIREMENTS[formData.role][i]] = Null}

FirstMissing ==
  ROLE_REQUIREMENTS[formData.role][CHOOSE i \in MissingPositions :
                                     \A j \in MissingPositions : i <= j]

(***************************************************************************)
(* C20.  When handleRegister runs while a required document of the         *)
(* selected role has no file, it sets the error "Please upload: " followed *)
(* by the first such document in table order and stops: no account, no     *)
(* upload, no profile write, no pending call, loading stays false, the     *)
(* route is unchanged.  Every role, customer included, requires at least   *)
(* one document.                                                           *)
(***************************************************************************)
C20_MissingDocStops ==
  /\ [](\A role \in Roles : Len(requiredDocs(role)) >= 1)
  /\ [][(handleRegister /\ MissingPositions # {}) =>
          /\ signupError' = Message(<<"Please upload: ", FirstMissing>>)
          /\ ~signupLoading /\ ~signupLoading'
          /\ UNCHANGED <<registrations, authUsers, storageObjects, userDocs, location,
                         formData, files>>]_vars

C20_Witness ==
  /\ formData.role = "rider"
  /\ ~NoFile(files, "Driving License (Front)")
  /\ NoFile(files, "Driving License (Back)")
  /\ signupError = Message(<<"Please upload: ", "Driving License (Back)">>)
  /\ ~signupLoading
  /\ registrations = {} /\ authUsers = {} /\ storageObjects = {} /\ userDocs = {}
  /\ location = "/signup"

\* the documents of a role's table row
DocsOf(role) == {requiredDocs(role)[i] : i \in 1..Len(requiredDocs(role))}

\* the documents uploaded for an account
Uploaded(uid) == {o.docName : o \in {x \in storageObjects : x.uid = uid}}

\* handleRegister is still running for the account
InFlight(uid) == \E g \in registrations : g.uid = uid

(***************************************************************************)
(* C21.  handleRegister creates the account, then uploads the required     *)
(* documents in table order, then writes users/{uid} with status "pending" *)
(* and an URL for every required document, then updates the display name;  *)
(* /pending-approval is shown only after all four succeeded; a rejected    *)
(* step sets error, resets loading and no later step runs.                 *)
(***************************************************************************)
C21_StepsInOrder ==
  /\ [](/\ \A o \in storageObjects : \E a \in authUsers : a.uid = o.uid
        /\ \A a \in authUsers :
             \E k \in 0..Len(requiredDocs(a.role)) :
               Uploaded(a.uid) = {requiredDocs(a.role)[i] : i \in 1..k}
        /\ \A d \in userDocs :
             /\ d.status = "pending"
             /\ d.documents = DocsOf(d.role)
             /\ Uploaded(d.uid) = DocsOf(d.role)
             /\ \E a \in authUsers : a.uid = d.uid /\ a.role = d.role
        /\ \A a \in authUsers : a.profileUpdated => \E d \in userDocs : d.uid = a.uid
        /\ location = "/pending-approval" =>
             /\ \E a \in authUsers : a.profileUpdated
             /\ registrations = {}
             /\ ~signupLoading)
  /\ [][/\ \A g \in registrations : \A err \in FirebaseErrors :
             RegisterRejected(g, err) =>
               /\ signupError' = Message(formatFirebaseError(err))
               /\ ~signupLoading'
               /\ g \notin registrations'
               /\ UNCHANGED <<authUsers, storageObjects, userDocs, location>>
        /\ registrations = {} =>
             UNCHANGED <<authUsers, storageObjects, userDocs, location>>]_vars

C21_Witness ==
  /\ location = "/pending-approval"
  /\ ~signupLoading
  /\ \E a \in authUsers :
       /\ a.role = "rider" /\ a.profileUpdated
       /\ Uploaded(a.uid) = DocsOf("rider")
       /\ \E d \in userDocs : d.uid = a.uid /\ d.documents = DocsOf("rider")

(***************************************************************************)
(* C24.  Every account handleRegister created and is no longer working on  *)
(* has a users/{uid} document with status "pending".                       *)
(* Violated: a rejected upload (or profile write) ends handleRegister in   *)
(* its catch block; the account created in step 1 stays, without profile.  *)
(***************************************************************************)
C24_AccountHasProfile ==
  \A a \in authUsers :
    ~InFlight(a.uid) => \E d \in userDocs : d.uid = a.uid /\ d.status = "pending"

(***************************************************************************)
(* C27.  The files map has entries only for documents of the selected      *)
(* role, chosen since the last role change, and no file above 5 MB: a role *)
(* change empties it, an oversize file sets an error and leaves it         *)
(* unchanged; handleRegister uploads only files of the role it registers   *)
(* and none above 5 MB.                                                    *)
(***************************************************************************)
C27_FilesOfSelectedRole ==
  /\ [](/\ \A k \in DOMAIN files :
             /\ k \in DocsOf(formData.role)
             /\ files[k] # Null => files[k].sizeMB <= MAX_FILE_MB
        /\ \A g \in registrations : DOMAIN g.files \subseteq DocsOf(g.role)
        /\ \A o \in storageObjects :
             /\ o.file.sizeMB <= MAX_FILE_MB
             /\ \E a \in authUsers : a.uid = o.uid /\ o.docName \in DocsOf(a.role))
  /\ [][/\ formData' # formData => DOMAIN files' = {}
        /\ \A docName \in DocsOf(formData.role) : \A file \in FileChoices \ {Null} :
             (file.sizeMB > MAX_FILE_MB /\ handleFileChange(docName, file)) =>
               /\ UNCHANGED files
               /\ signupError' # Null
        /\ \A g \in registrations :
             UploadBytesResolved(g) =>
               \E o \in storageObjects' \ storageObjects :
                 /\ o.uid = g.uid
                 /\ o.file = g.files[o.docName]]_vars

C27_Witness ==
  /\ formData.role = "rider"
  /\ DOMAIN files = {"Driving License (Front)"}
  /\ files["Driving License (Front)"] # Null
  /\ files["Driving License (Front)"].sizeMB = MAX_FILE_MB
  /\ signupError =
       Message(<<"File too large: \"", "Driving License (Back)", "\". Max ", MAX_FILE_MB, "MB.">>)
  /\ \E a \in authUsers : a.role = "customer" /\ Uploaded(a.uid) = {"NRC / ID Card"}

(***************************************************************************)
(* C23 (getDoc variant).  Whenever loading is false and user is a non-null *)
(* identity V, profile is null or the data of V's own document.            *)
(* Violated: the continuation of an awaited read does not check that its   *)
(* identity is still the current one, so the read started for U, resolving *)
(* after the auth stream switched to V, stores U's data.                   *)
(***************************************************************************)
C23_ProfileOfCurrentUser ==
  (variant = "getDoc" /\ ~loading /\ user # Null) =>
    (profile = Null \/ profile \in ProfileDocs(user.uid))

C29_LastSubmissionWins ==
  (lookups = {} /\ trackSubmits > 0) =>
     /\ trackState.type \in {"success", "not_found", "error"}
     /\ trackState = outcomes[trackSubmits]

(***************************************************************************)
(* C22.  logout() never throws: whether POST /auth/logout is fulfilled or  *)
(* rejected, the call returns, and when it ends the Authorization header   *)
(* of the api client is absent.                                            *)
(***************************************************************************)
C22_LogoutClearsHeader ==
  [][(lastCall' # lastCall /\ lastCall'.kind = "logout") =>
        /\ lastCall'.outcome = "returned"
        /\ authorization' = Null]_vars

C22_Witness ==
  /\ lastCall.kind = "logout"
  /\ lastCall.failed
  /\ lastCall.before # Null
  /\ lastCall.outcome = "returned"
  /\ authorization = Null

(***************************************************************************)
(* C25.  After a logout() has resolved and while no login, register or     *)
(* refreshToken call has been started since, the Authorization header is   *)
(* absent, also when a call started before the logout completes after it.  *)
(***************************************************************************)
C25_HeaderStaysAbsent ==
  sinceLogout => authorization = Null

(***************************************************************************)
(* C26.  The Authorization header gets a value only when a login, register *)
(* or refreshToken request succeeds, and the value is "Bearer " followed   *)
(* by the access token of the response; when the request fails, the header *)
(* keeps its value and the call throws an Error whose message is           *)
(* toApiErrorMessage of the failure.                                       *)
(***************************************************************************)
C26_TokenOnlyOnSuccess ==
  /\ [][(lastCall' # lastCall /\ lastCall'.kind \in AuthKinds) =>
          IF lastCall'.failed
          THEN /\ authorization' = authorization
               /\ lastCall'.outcome = "threw"
               /\ lastCall'.message = toApiErrorMessage(lastCall'.err)
          ELSE /\ lastCall'.outcome = "returned"
               /\ lastCall'.token.str # "" =>
                    authorization' = [scheme |-> "Bearer",
                                      token |-> lastCall'.token.str]]_vars
  /\ [][(authorization' # authorization /\ authorization' # Null) =>
          /\ lastCall' # lastCall
          /\ lastCall'.kind \in AuthKinds
          /\ ~lastCall'.failed
          /\ authorization' = [scheme |-> "Bearer",
                               token |-> lastCall'.token.str]]_vars

C26_Witness ==
  /\ lastCall.kind = "refreshToken"
  /\ lastCall.failed
  /\ lastCall.outcome = "threw"
  /\ lastCall.message = "unauthorized"
  /\ lastCall.before = [scheme |-> "Bearer", token |-> "tokA"]
  /\ authorization = lastCall.before

====
